---------------------------- MODULE Spec2Model ----------------------------
(***************************************************************************)
(* git-sl-up: the interactive smartlog menu of src/src/main.py.            *)
(*                                                                         *)
(* A line of text is a sequence of characters, each character a string of  *)
(* length one (the escape byte 0x1B is the element ESC).  Offsets into a   *)
(* line are Python's: 0-based, a span (a, b) covers line[a:b].             *)
(***************************************************************************)
EXTENDS Integers, Sequences, FiniteSets, TLC

(***************************************************************************)
(* Characters and the character classes of the regular expressions.        *)
(***************************************************************************)

\* the byte 0x1B, written "\x1B" in the pattern of remove_colors
ESC == "ESC"

\* the printable ASCII characters 0x20 .. 0x7E in code order (without the
\* backquote 0x60, which a TLA+ string cannot hold)
Ascii == " !\"#$%&'()*+,-./0123456789:;<=>?@ABCDEFGHIJKLMNOPQRSTUVWXYZ[\\]^_abcdefghijklmnopqrstuvwxyz{|}~"

Chars(str) == [i \in 1..Len(str) |-> SubSeq(str, i, i)]

\* the position in Ascii of a printable character
AsciiIndex(c) == CHOOSE i \in 1..Len(Ascii) : SubSeq(Ascii, i, i) = c

\* the regex range [lo-hi] over printable characters
CharRange(lo, hi) ==
    {SubSeq(Ascii, i, i) : i \in AsciiIndex(lo)..AsciiIndex(hi)}

\* \s
Whitespace == {" ", "\t", "\n", "\r", "\f"}

\* every character a line is made of
Char == CharRange(" ", "~") \cup Whitespace \cup {ESC}

\* [^\s]
NotWhitespace == Char \ Whitespace

\* . (no DOTALL flag)
Dot == Char \ {"\n"}

\* [@-_], [0-?], [ -/], [@-~] of the ANSI escape pattern
EscSecond == CharRange("@", "_")
EscParam == CharRange("0", "?")
EscInter == CharRange(" ", "/")
EscFinal == CharRange("@", "~")

\* [\|\:\s] and [o\*]
GraphPrefix == {"|", ":"} \cup Whitespace
NodeGlyph == {"o", "*"}

\* line[a:b]
Slice(s, a, b) == SubSeq(s, a + 1, b)

\* a greedy X*: the offset after the longest run of class characters from i
RECURSIVE RunEnd(_, _, _)
RunEnd(s, i, class) ==
    IF i < Len(s) /\ s[i + 1] \in class THEN RunEnd(s, i + 1, class) ELSE i


(***************************************************************************)
(* remove_colors: re.sub of \x1B[@-_][0-?]*[ -/]*[@-~] by "".              *)
(***************************************************************************)

\* [ -/]* took s[p..q); the final byte [@-~] must be at q, else give one back
RECURSIVE EscapeInter(_, _, _)
EscapeInter(s, p, q) ==
    IF q < Len(s) /\ s[q + 1] \in EscFinal THEN q + 1
    ELSE IF q > p THEN EscapeInter(s, p, q - 1) ELSE -1

\* [0-?]* took s[lo..p); then [ -/]*[@-~], else give one back
RECURSIVE EscapeParam(_, _, _)
EscapeParam(s, lo, p) ==
    LET e == EscapeInter(s, p, RunEnd(s, p, EscInter))
    IN  IF e # -1 THEN e
        ELSE IF p > lo THEN EscapeParam(s, lo, p - 1) ELSE -1

\* the end offset of the escape sequence that starts at offset i, or -1
EscapeEnd(s, i) ==
    IF i + 1 < Len(s) /\ s[i + 1] = ESC /\ s[i + 2] \in EscSecond
    THEN EscapeParam(s, i + 2, RunEnd(s, i + 2, EscParam))
    ELSE -1

\* sub with count=1: only the first escape sequence is dropped
RECURSIVE SubFirst(_, _)
SubFirst(s, i) ==
    IF i >= Len(s) THEN <<>>
    ELSE IF EscapeEnd(s, i) # -1 THEN Slice(s, EscapeEnd(s, i), Len(s))
    ELSE <<s[i + 1]>> \o SubFirst(s, i + 1)

\* one left-to-right pass of sub: a match is dropped and the scan goes on
\* after it, any other character is kept
RECURSIVE SubFrom(_, _)
SubFrom(s, i) ==
    IF i >= Len(s) THEN <<>>
    ELSE IF EscapeEnd(s, i) # -1 THEN SubFrom(s, EscapeEnd(s, i))
    ELSE <<s[i + 1]>> \o SubFrom(s, i + 1)

remove_colors(string) == SubFrom(string, 0)

(***************************************************************************)
(* The classifiers: ^ [\|\:\s]* [o\*] and ^ [\|\:\s]* \* with re.match.    *)
(***************************************************************************)

\* [\|\:\s]* took s[0..p); a character of glyphs must be at p, else give
\* one back
RECURSIVE PrefixThen(_, _, _)
PrefixThen(s, p, glyphs) ==
    IF p < Len(s) /\ s[p + 1] \in glyphs THEN TRUE
    ELSE IF p > 0 THEN PrefixThen(s, p - 1, glyphs) ELSE FALSE

\* is_commit_line without the prefix [\|\:\s]*
IsCommitLineNoPrefix(string) == PrefixThen(string, 0, NodeGlyph)

is_commit_line(string) ==
    PrefixThen(string, RunEnd(string, 0, GraphPrefix), NodeGlyph)

is_current_checkout(string) ==
    PrefixThen(string, RunEnd(string, 0, GraphPrefix), {"*"})

(***************************************************************************)
(* get_elements_from_log_line: the pattern of main.py line 65 (written     *)
(* here with blanks between its pieces)                                    *)
(*   ^ [\|\:\s]* [o\*] \s* (?P<commit> [^\s]+ ) \s* (?P<author> [^\s]+ )   *)
(*   \s* (?: \( (?P<branches> .* ) \) \s* )? (?P<time> .* ) $              *)
(* matched the way re matches it: every quantifier takes the longest run   *)
(* first and gives characters back, one at a time, while the rest of the   *)
(* pattern fails.  One operator per quantifier, in pattern order from the  *)
(* end; g holds the spans of the groups matched so far.                    *)
(***************************************************************************)

FieldNames == {"commit", "author", "branches", "time"}

\* the span of a group that took no part in the match (Match.span gives
\* (-1, -1), groupdict gives None)
NoSpan == <<-1, -1>>

NoMatch == [matched |-> FALSE]

\* $ (no MULTILINE flag): the end, or just before a final newline
AtEnd(s, i) == i = Len(s) \/ (i = Len(s) - 1 /\ s[Len(s)] = "\n")

\* the match found on the first path, else the one found after backtracking
OrElse(first, second) == IF first.matched THEN first ELSE second

\* (?P<time> .* ) $ : the .* took s[t0..j)
RECURSIVE MatchTime(_, _, _, _)
MatchTime(s, g, t0, j) ==
    IF AtEnd(s, j)
    THEN [matched |-> TRUE, span |-> [g EXCEPT !.time = <<t0, j>>]]
    ELSE IF j > t0 THEN MatchTime(s, g, t0, j - 1) ELSE NoMatch

\* the \s* after \) took s[lo..m); then the time group and $
RECURSIVE MatchParenSpace(_, _, _, _)
MatchParenSpace(s, g, lo, m) ==
    OrElse(MatchTime(s, g, m, RunEnd(s, m, Dot)),
           IF m > lo THEN MatchParenSpace(s, g, lo, m - 1) ELSE NoMatch)

\* (?P<branches> .* ) \) : the .* took s[b0..k); \) must be at k
RECURSIVE MatchBranches(_, _, _, _)
MatchBranches(s, g, b0, k) ==
    OrElse(IF k < Len(s) /\ s[k + 1] = ")"
           THEN MatchParenSpace(s, [g EXCEPT !.branches = <<b0, k>>],
                                k + 1, RunEnd(s, k + 1, Whitespace))
           ELSE NoMatch,
           IF k > b0 THEN MatchBranches(s, g, b0, k - 1) ELSE NoMatch)

\* the group (?: \( ... \) \s* ) at offset i
MatchGroup(s, g, i) ==
    IF i < Len(s) /\ s[i + 1] = "("
    THEN MatchBranches(s, g, i + 1, RunEnd(s, i + 1, Dot))
    ELSE NoMatch

\* (?: \( ... \) \s* )? at offset i: the group is tried first, then skipped
MatchOptional(s, g, i) ==
    OrElse(MatchGroup(s, g, i), MatchTime(s, g, i, RunEnd(s, i, Dot)))

\* the \s* after the author took s[lo..m)
RECURSIVE MatchAuthorSpace(_, _, _, _)
MatchAuthorSpace(s, g, lo, m) ==
    OrElse(MatchOptional(s, g, m),
           IF m > lo THEN MatchAuthorSpace(s, g, lo, m - 1) ELSE NoMatch)

\* (?P<author> [^\s]+ ) took s[a0..j): at least one character
RECURSIVE MatchAuthor(_, _, _, _)
MatchAuthor(s, g, a0, j) ==
    IF j <= a0 THEN NoMatch
    ELSE OrElse(MatchAuthorSpace(s, [g EXCEPT !.author = <<a0, j>>],
                                 j, RunEnd(s, j, Whitespace)),
                MatchAuthor(s, g, a0, j - 1))

\* the \s* after the commit took s[lo..m)
RECURSIVE MatchCommitSpace(_, _, _, _)
MatchCommitSpace(s, g, lo, m) ==
    OrElse(MatchAuthor(s, g, m, RunEnd(s, m, NotWhitespace)),
           IF m > lo THEN MatchCommitSpace(s, g, lo, m - 1) ELSE NoMatch)

\* (?P<commit> [^\s]+ ) took s[c0..j): at least one character
RECURSIVE MatchCommit(_, _, _, _)
MatchCommit(s, g, c0, j) ==
    IF j <= c0 THEN NoMatch
    ELSE OrElse(MatchCommitSpace(s, [g EXCEPT !.commit = <<c0, j>>],
                                 j, RunEnd(s, j, Whitespace)),
                MatchCommit(s, g, c0, j - 1))

\* the \s* after the node glyph took s[lo..m)
RECURSIVE MatchGlyphSpace(_, _, _, _)
MatchGlyphSpace(s, g, lo, m) ==
    OrElse(MatchCommit(s, g, m, RunEnd(s, m, NotWhitespace)),
           IF m > lo THEN MatchGlyphSpace(s, g, lo, m - 1) ELSE NoMatch)

\* ^ [\|\:\s]* [o\*] : the prefix took s[0..p); the node glyph must be at p
RECURSIVE MatchPrefix(_, _, _)
MatchPrefix(s, g, p) ==
    OrElse(IF p < Len(s) /\ s[p + 1] \in NodeGlyph
           THEN MatchGlyphSpace(s, g, p + 1, RunEnd(s, p + 1, Whitespace))
           ELSE NoMatch,
           IF p > 0 THEN MatchPrefix(s, g, p - 1) ELSE NoMatch)

\* matcher.search(log_line): the pattern starts with ^, so only offset 0
LogLineSearch(log_line) ==
    MatchPrefix(log_line, [key \in FieldNames |-> NoSpan],
                RunEnd(log_line, 0, GraphPrefix))

\* LogLineElement with 1-based columns for coordinates
LogLineElementOneBased(log_line, span) ==
    [text |-> Slice(log_line, span[1], span[2]),
     coordinates |-> <<span[1] + 1, span[2] + 1>>]

\* LogLineElement(text=..., coordinates=matches.span(key))
LogLineElement(log_line, span) ==
    [text |-> Slice(log_line, span[1], span[2]), coordinates |-> span]

\* the groups whose text is truthy: they took part and are not empty
TruthyGroups(span) ==
    {key \in FieldNames : span[key] # NoSpan /\ span[key][1] < span[key][2]}

get_elements_from_log_line(log_line) ==
    LET matches == LogLineSearch(log_line)
    IN  IF matches.matched
        THEN [key \in TruthyGroups(matches.span) |->
                 LogLineElement(log_line, matches.span[key])]
        ELSE [key \in {} |-> NoSpan]

(***************************************************************************)
(* get_commit_or_branch_name and the str methods it uses.                  *)
(***************************************************************************)

\* str.strip(): leading and trailing whitespace removed
RECURSIVE LastNonSpace(_, _)
LastNonSpace(s, j) ==
    IF j > 0 /\ s[j] \in Whitespace THEN LastNonSpace(s, j - 1) ELSE j

strip(s) ==
    LET a == RunEnd(s, 0, Whitespace)
    IN  IF a = Len(s) THEN <<>> ELSE Slice(s, a, LastNonSpace(s, Len(s)))

\* str.split(","): the pieces between the commas, empty pieces kept
RECURSIVE SplitFrom(_, _, _)
SplitFrom(s, start, i) ==
    IF i >= Len(s) THEN <<Slice(s, start, Len(s))>>
    ELSE IF s[i + 1] = ","
         THEN <<Slice(s, start, i)>> \o SplitFrom(s, i + 1, i + 1)
         ELSE SplitFrom(s, start, i + 1)

split(s) == SplitFrom(s, 0, 0)

\* str.startswith(prefix)
startswith(s, prefix) ==
    Len(s) >= Len(prefix) /\ SubSeq(s, 1, Len(prefix)) = prefix

OriginPrefix == Chars("origin/")

\* [b for b in branches if not b.startswith("origin/")]
RECURSIVE LocalBranches(_)
LocalBranches(branches) ==
    IF branches = <<>> THEN <<>>
    ELSE IF startswith(Head(branches), OriginPrefix)
         THEN LocalBranches(Tail(branches))
         ELSE <<Head(branches)>> \o LocalBranches(Tail(branches))

\* the resolver without the preference for local branches
FirstBranch(branches) == branches[1]

\* the branch the resolver prefers among the stripped branch names
PreferredBranch(branches) ==
    LET local_branches == LocalBranches(branches)
    IN  IF local_branches # <<>> THEN local_branches[1] ELSE branches[1]

\* returns [ok |-> TRUE, ref |-> the name], or [ok |-> FALSE] for the
\* ValueError of line 153
get_commit_or_branch_name(log_line) ==
    LET line == strip(remove_colors(log_line))
        elements == get_elements_from_log_line(line)
    IN  IF "branches" \in DOMAIN elements
        THEN LET parts == split(elements["branches"].text)
                 branches == [i \in 1..Len(parts) |-> strip(parts[i])]
             IN  [ok |-> TRUE, ref |-> PreferredBranch(branches)]
        ELSE IF "commit" \in DOMAIN elements
        THEN [ok |-> TRUE, ref |-> elements["commit"].text]
        ELSE [ok |-> FALSE]

\* every line taken for a commit row: [i for i in range(len(lines))]
RECURSIVE AllIndicesFrom(_, _)
AllIndicesFrom(lines, i) ==
    IF i >= Len(lines) THEN <<>>
    ELSE <<i>> \o AllIndicesFrom(lines, i + 1)

\* [i for i in range(len(lines)) if is_commit_line(lines[i])]
RECURSIVE CommitIndicesFrom(_, _)
CommitIndicesFrom(lines, i) ==
    IF i >= Len(lines) THEN <<>>
    ELSE IF is_commit_line(lines[i + 1])
         THEN <<i>> \o CommitIndicesFrom(lines, i + 1)
         ELSE CommitIndicesFrom(lines, i + 1)

get_commit_lines_indices(lines) == CommitIndicesFrom(lines, 0)

(***************************************************************************)
(* The renderer: what format_line and draw_menu ask of the curses window.  *)
(* The window takes every instruction: it is as large as the log, and      *)
(* every character is one column wide.                                     *)
(***************************************************************************)

\* class Colors
WHITE == 1
MAGENTA == 2
YELLOW == 3
GREEN == 4

\* window.addstr(insert_line_index, insert_row_index, text) between attron
\* and attroff of the color pair: text is painted on screen line y from
\* column x on
color_screen_text(text, insert_line_index, insert_row_index, color) ==
    [op |-> "addstr", y |-> insert_line_index, x |-> insert_row_index,
     text |-> text, color |-> color]

\* format_line with the branches painted one column further right
FormatLineBranchesShifted(log_line, insert_line_index, is_current_line) ==
    IF is_current_line
    THEN <<color_screen_text(log_line, insert_line_index, 1, MAGENTA)>>
    ELSE LET elements == get_elements_from_log_line(log_line)
         IN  <<color_screen_text(log_line, insert_line_index, 1, WHITE)>>
             \o (IF "commit" \in DOMAIN elements
                 THEN <<color_screen_text(
                            elements["commit"].text, insert_line_index,
                            elements["commit"].coordinates[1] + 1, YELLOW)>>
                 ELSE <<>>)
             \o (IF "branches" \in DOMAIN elements
                 THEN <<color_screen_text(
                            <<"(">> \o elements["branches"].text \o <<")">>,
                            insert_line_index,
                            elements["branches"].coordinates[1] + 1, GREEN)>>
                 ELSE <<>>)

\* the instructions format_line issues for one line, in order
format_line(log_line, insert_line_index, is_current_line) ==
    LET insert_row_index == 1
    IN  IF is_current_line
        THEN <<color_screen_text(log_line, insert_line_index,
                                 insert_row_index, MAGENTA)>>
        ELSE LET elements == get_elements_from_log_line(log_line)
             IN  <<color_screen_text(log_line, insert_line_index,
                                     insert_row_index, WHITE)>>
                 \o (IF "commit" \in DOMAIN elements
                     THEN <<color_screen_text(
                                elements["commit"].text, insert_line_index,
                                elements["commit"].coordinates[1] + 1,
                                YELLOW)>>
                     ELSE <<>>)
                 \o (IF "branches" \in DOMAIN elements
                     THEN <<color_screen_text(
                                <<"(">> \o elements["branches"].text
                                        \o <<")">>,
                                insert_line_index,
                                elements["branches"].coordinates[1], GREEN)>>
                     ELSE <<>>)

\* for i, log_line in enumerate(smartlog): format_line(log_line, window,
\* i + 1, i == current_line), from line i on
RECURSIVE FormatLinesFrom(_, _, _)
FormatLinesFrom(lines, i, current) ==
    IF i >= Len(lines) THEN <<>>
    ELSE format_line(lines[i + 1], i + 1, i = current)
             \o FormatLinesFrom(lines, i + 1, current)

\* the instructions one call of draw_menu issues: a frame
Frame(current, lines) ==
    <<[op |-> "clear"]>> \o FormatLinesFrom(lines, 0, current)
                         \o <<[op |-> "refresh"]>>

(***************************************************************************)
(* The session: curses.wrapper(main).                                      *)
(***************************************************************************)

VARIABLES
    output,                \* what `git smartlog` hands to get_smartlog
    smartlog,              \* main's smartlog: the sanitized, non-empty lines
    commit_lines_indices,  \* main's commit_lines_indices
    current_checkout,      \* main's current_checkout
    current_line,          \* main's current_line, the cursor
    pc,                    \* "wrapper" (curses.wrapper not yet called),
                           \* "start" (main is entered), "input" (blocked in
                           \* getch), "exited" (main returned) or "failed"
                           \* (an exception left it)
    error,                 \* the exception that left main, or "none"
    keys,                  \* the keys getch has returned so far
    interrupted,           \* a KeyboardInterrupt was raised in getch
    checkouts,             \* the refs git_checkout was called with, in order
    resolved,              \* the lines get_commit_or_branch_name was called
                           \* with by main, in order
    frames,                \* the number of frames draw_menu has painted
    highlight,             \* the current_line argument of the last draw_menu
    window,                \* the instructions of the last draw_menu, in order
    terminal,              \* "shell", or "curses" inside curses.wrapper
    arg,                   \* the argument of a function applied on its own
    ret                    \* what that function returned

vars == <<output, smartlog, commit_lines_indices, current_checkout,
          current_line, pc, error, keys, interrupted, checkouts, resolved,
          frames, highlight, window, terminal, arg, ret>>

sessionVars == <<output, smartlog, commit_lines_indices, current_checkout,
                 current_line, pc, error, keys, interrupted, checkouts,
                 resolved, frames, highlight, window, terminal>>

\* the key codes main compares getch's result with
KEY_UP == 259
KEY_DOWN == 258
KEY_ENTER == 343
KEY_LF == 10
KEY_CR == 13
KEY_ESCAPE == 27
\* a key main has no branch for ("q")
KEY_OTHER == 113

Keys == {KEY_UP, KEY_DOWN, KEY_ENTER, KEY_LF, KEY_CR, KEY_ESCAPE, KEY_OTHER}

\* the number of keys a session reads at most
MaxKeys == 9

\* the number of those that are keys main has no branch for, at most
MaxOtherKeys == 1

\* nothing applied yet
NotCalled == [fn |-> "none"]

(***************************************************************************)
(* The logs `git smartlog` may print, as lines split at "\n".              *)
(***************************************************************************)

\* the two-row log of the end-to-end property
FixtureLog ==
    << Chars("o  a1b2c3d  alice  (origin/main, main)  2 hours ago"),
       Chars("* e4f5a6b  bob  3 hours ago") >>

\* five commit rows, the checkout third among them, colored, with connector
\* lines, a row that carries a commit id only, a row that carries nothing
\* and the empty piece after the last "\n"
FiveRowLog ==
    << Chars("o 1a ca (origin/main, feature-x) 1h"),
       Chars("|"),
       Chars("| o 5d da (origin/main, origin/release) 2h"),
       Chars("|/"),
       <<ESC, "[", "3", "3", "m", "*", ESC, "[", "0", "m">>
           \o Chars(" 9a er 3h"),
       Chars(":"),
       Chars("o abc"),
       Chars("o"),
       <<>> >>

\* the checkout row itself carries no commit id, and a second row carries
\* the checkout glyph too
BareCheckoutLog ==
    << Chars("o 1a ca (, main) 1h"),
       Chars("| *"),
       Chars("o x"),
       Chars("* 9a er 3h") >>

\* no row carries the checkout glyph
NoCheckoutLog ==
    << Chars("o 1a ca 1h"),
       Chars("|"),
       Chars("o 5d da (main) 2h") >>

Logs == {FixtureLog, FiveRowLog, BareCheckoutLog, NoCheckoutLog, <<>>}

\* check_output returned the lines, or raised (git is missing, or failed)
Outputs == {[ok |-> TRUE, lines |-> l] : l \in Logs}
               \cup {[ok |-> FALSE, lines |-> <<>>]}

(***************************************************************************)
(* main up to its first getch.                                             *)
(***************************************************************************)

\* [remove_colors(line) for line in lines if line != ""]
RECURSIVE get_smartlog(_)
get_smartlog(lines) ==
    IF lines = <<>> THEN <<>>
    ELSE IF Head(lines) = <<>> THEN get_smartlog(Tail(lines))
    ELSE <<remove_colors(Head(lines))>> \o get_smartlog(Tail(lines))

\* list.index(x): the offset of the first element equal to x (x is in it)
RECURSIVE index(_, _)
index(list, x) ==
    IF Head(list) = x THEN 0 ELSE 1 + index(Tail(list), x)

\* [line for line in smartlog if is_current_checkout(line)]
RECURSIVE CurrentCheckoutLines(_)
CurrentCheckoutLines(lines) ==
    IF lines = <<>> THEN <<>>
    ELSE IF is_current_checkout(Head(lines))
         THEN <<Head(lines)>> \o CurrentCheckoutLines(Tail(lines))
         ELSE CurrentCheckoutLines(Tail(lines))

\* curses.wrapper(main), lines 200-202: the terminal enters curses mode
\* (initscr, noecho, cbreak, keypad) and main is called
Wrapper ==
    /\ pc = "wrapper"
    /\ pc' = "start"
    /\ terminal' = "curses"
    /\ UNCHANGED <<output, smartlog, commit_lines_indices, current_checkout,
                   current_line, error, keys, interrupted, checkouts,
                   resolved, frames, highlight, window, arg, ret>>

\* an exception leaves main called without curses.wrapper: the terminal
\* stays as it is
RaiseWithoutRestore(exception) ==
    /\ pc' = "failed"
    /\ error' = exception
    /\ UNCHANGED terminal

\* an exception leaves main: curses.wrapper restores the terminal and
\* re-raises
Raise(exception) ==
    /\ pc' = "failed"
    /\ error' = exception
    /\ terminal' = "shell"

\* main returns: curses.wrapper restores the terminal
Return ==
    /\ pc' = "exited"
    /\ error' = "none"
    /\ terminal' = "shell"

\* draw_menu(window, commit_lines_indices[current_line], smartlog) with the
\* cursor at line
draw_menu(indices, line) ==
    /\ frames' = frames + 1
    /\ highlight' = indices[line + 1]
    /\ window' = Frame(indices[line + 1], smartlog')

\* Start with the raw line index of the checkout row as the cursor
StartAtRawIndex ==
    /\ pc = "start"
    /\ UNCHANGED <<output, keys, interrupted, checkouts, resolved, arg, ret>>
    /\ IF ~output.ok
       THEN /\ Raise("CalledProcessError")
            /\ UNCHANGED <<smartlog, commit_lines_indices, current_checkout,
                           current_line, frames, highlight, window>>
       ELSE LET log == get_smartlog(output.lines)
                indices == get_commit_lines_indices(log)
                current == CurrentCheckoutLines(log)
            IN  /\ smartlog' = log
                /\ commit_lines_indices' = indices
                /\ IF current = <<>>
                   THEN /\ Raise("IndexError")
                        /\ UNCHANGED <<current_checkout, current_line,
                                       frames, highlight, window>>
                   ELSE LET checkout == index(log, current[1])
                        IN  /\ current_checkout' = checkout
                            /\ current_line' = checkout
                            /\ draw_menu(indices, checkout)
                            /\ pc' = "input"
                            /\ UNCHANGED <<terminal, error>>

\* main from its entry to its first getch (lines 161-173)
Start ==
    /\ pc = "start"
    /\ UNCHANGED <<output, keys, interrupted, checkouts, resolved, arg, ret>>
    /\ IF ~output.ok
       THEN /\ Raise("CalledProcessError")
            /\ UNCHANGED <<smartlog, commit_lines_indices, current_checkout,
                           current_line, frames, highlight, window>>
       ELSE LET log == get_smartlog(output.lines)
                indices == get_commit_lines_indices(log)
                current == CurrentCheckoutLines(log)
            IN  /\ smartlog' = log
                /\ commit_lines_indices' = indices
                /\ IF current = <<>>
                   THEN /\ Raise("IndexError")
                        /\ UNCHANGED <<current_checkout, current_line,
                                       frames, highlight, window>>
                   ELSE LET checkout ==
                                index(indices, index(log, current[1]))
                        IN  /\ current_checkout' = checkout
                            /\ current_line' = checkout
                            /\ draw_menu(indices, checkout)
                            /\ pc' = "input"
                            /\ UNCHANGED <<terminal, error>>

(***************************************************************************)
(* One turn of main's loop: getch returns key.                             *)
(***************************************************************************)

\* git_checkout whose failure is swallowed and whose return is not
\* followed by the break of line 191: the loop goes on
GitCheckoutContinues(ref, succeeded) ==
    /\ checkouts' = Append(checkouts, ref)
    /\ UNCHANGED <<pc, error, terminal>>

\* subprocess.check_call(["git", "checkout", ref]); succeeded tells whether
\* git exited with status 0
git_checkout(ref, succeeded) ==
    /\ checkouts' = Append(checkouts, ref)
    /\ IF succeeded THEN Return ELSE Raise("CalledProcessError")

\* the row of smartlog under the cursor (lines 186-188)
CursorRow == smartlog[commit_lines_indices[current_line + 1] + 1]

\* Confirm without the comparison of line 189: every resolved row is
\* checked out
ConfirmWithoutCompare ==
    LET ref == get_commit_or_branch_name(CursorRow)
    IN  /\ UNCHANGED <<current_line, frames, highlight, window>>
        /\ resolved' = Append(resolved, CursorRow)
        /\ IF ~ref.ok
           THEN Raise("ValueError") /\ UNCHANGED checkouts
           ELSE \E succeeded \in BOOLEAN : git_checkout(ref.ref, succeeded)

\* Confirm reading smartlog at the cursor itself, not at
\* commit_lines_indices[current_line]
ConfirmRawIndex ==
    LET ref == get_commit_or_branch_name(smartlog[current_line + 1])
    IN  /\ UNCHANGED <<current_line, frames, highlight, window>>
        /\ resolved' = Append(resolved, smartlog[current_line + 1])
        /\ IF ~ref.ok
           THEN Raise("ValueError") /\ UNCHANGED checkouts
           ELSE IF current_checkout # current_line
           THEN \E succeeded \in BOOLEAN : git_checkout(ref.ref, succeeded)
           ELSE Return /\ UNCHANGED checkouts

\* Confirm comparing the cursor with the checkout before it resolves the row
ConfirmCompareFirst ==
    /\ UNCHANGED <<current_line, frames, highlight, window>>
    /\ IF current_checkout = current_line
       THEN Return /\ UNCHANGED <<checkouts, resolved>>
       ELSE LET ref == get_commit_or_branch_name(CursorRow)
            IN  /\ resolved' = Append(resolved, CursorRow)
                /\ IF ~ref.ok
                   THEN Raise("ValueError") /\ UNCHANGED checkouts
                   ELSE \E succeeded \in BOOLEAN :
                            git_checkout(ref.ref, succeeded)

\* Confirm without the break of line 191 when nothing is checked out: the
\* menu is drawn again and the loop goes on
ConfirmWithoutBreak ==
    LET ref == get_commit_or_branch_name(CursorRow)
    IN  /\ resolved' = Append(resolved, CursorRow)
        /\ IF ~ref.ok
           THEN /\ Raise("ValueError")
                /\ UNCHANGED <<current_line, frames, highlight, window,
                               checkouts>>
           ELSE IF current_checkout # current_line
           THEN /\ UNCHANGED <<current_line, frames, highlight, window>>
                /\ \E succeeded \in BOOLEAN :
                       git_checkout(ref.ref, succeeded)
           ELSE /\ current_line' = current_line
                /\ draw_menu(commit_lines_indices, current_line)
                /\ UNCHANGED <<pc, error, terminal, checkouts>>

\* the branch of lines 184-191; git may fail the checkout
Confirm ==
    LET ref == get_commit_or_branch_name(CursorRow)
    IN  /\ UNCHANGED <<current_line, frames, highlight, window>>
        /\ resolved' = Append(resolved, CursorRow)
        /\ IF ~ref.ok
           THEN Raise("ValueError") /\ UNCHANGED checkouts
           ELSE IF current_checkout # current_line
           THEN \E succeeded \in BOOLEAN : git_checkout(ref.ref, succeeded)
           ELSE Return /\ UNCHANGED checkouts

\* MoveTo without line 195: the cursor moves and the menu is left as it is
MoveToWithoutDraw(line) ==
    /\ current_line' = line
    /\ UNCHANGED <<frames, highlight, window>>
    /\ UNCHANGED <<pc, error, terminal, checkouts, resolved>>

\* the cursor moves to line and the menu is drawn again (line 195)
MoveTo(line) ==
    /\ current_line' = line
    /\ draw_menu(commit_lines_indices, line)
    /\ UNCHANGED <<pc, error, terminal, checkouts, resolved>>

\* the bounds on the keys of a session
WithinBounds(key) ==
    /\ Len(keys) < MaxKeys
    /\ key = KEY_OTHER =>
           Cardinality({i \in 1..Len(keys) : keys[i] = KEY_OTHER})
               < MaxOtherKeys

\* Getch with a cursor that wraps around: KEY_UP on the first row goes to
\* the last row, KEY_DOWN on the last row to the first
GetchWrapsAround(key) ==
    /\ pc = "input"
    /\ WithinBounds(key)
    /\ keys' = Append(keys, key)
    /\ UNCHANGED <<output, smartlog, commit_lines_indices, current_checkout,
                   interrupted, arg, ret>>
    /\ IF key = KEY_UP
       THEN MoveTo((current_line - 1) % Len(commit_lines_indices))
       ELSE IF key = KEY_DOWN
       THEN MoveTo((current_line + 1) % Len(commit_lines_indices))
       ELSE IF key \in {KEY_ENTER, KEY_LF, KEY_CR}
       THEN Confirm
       ELSE IF key = KEY_ESCAPE
       THEN /\ Return
            /\ UNCHANGED <<current_line, frames, highlight, window,
                           checkouts, resolved>>
       ELSE MoveTo(current_line)

Getch(key) ==
    /\ pc = "input"
    /\ WithinBounds(key)
    /\ keys' = Append(keys, key)
    /\ UNCHANGED <<output, smartlog, commit_lines_indices, current_checkout,
                   interrupted, arg, ret>>
    /\ IF key = KEY_UP /\ current_line > 0
       THEN MoveTo(current_line - 1)
       ELSE IF key = KEY_DOWN
               /\ current_line < Len(commit_lines_indices) - 1
       THEN MoveTo(current_line + 1)
       ELSE IF key \in {KEY_ENTER, KEY_LF, KEY_CR}
       THEN Confirm
       ELSE IF key = KEY_ESCAPE
       THEN /\ Return
            /\ UNCHANGED <<current_line, frames, highlight, window,
                           checkouts, resolved>>
       ELSE MoveTo(current_line)

\* Interrupt with an except clause that does not break: the loop goes on
InterruptContinues ==
    /\ pc = "input"
    /\ interrupted' = TRUE
    /\ UNCHANGED <<output, smartlog, commit_lines_indices, current_checkout,
                   current_line, keys, checkouts, resolved, frames,
                   highlight, window, arg, ret, pc, error, terminal>>

\* KeyboardInterrupt raised while getch blocks: the except clause breaks
Interrupt ==
    /\ pc = "input"
    /\ interrupted' = TRUE
    /\ Return
    /\ UNCHANGED <<output, smartlog, commit_lines_indices, current_checkout,
                   current_line, keys, checkouts, resolved, frames,
                   highlight, window, arg, ret>>

\* the session before curses.wrapper(main) runs, the log source printing out
SessionInit(out) ==
    /\ output = out
    /\ smartlog = <<>>
    /\ commit_lines_indices = <<>>
    /\ current_checkout = -1
    /\ current_line = -1
    /\ pc = "wrapper"
    /\ error = "none"
    /\ keys = <<>>
    /\ interrupted = FALSE
    /\ checkouts = <<>>
    /\ resolved = <<>>
    /\ frames = 0
    /\ highlight = -1
    /\ window = <<>>
    /\ terminal = "shell"

Init ==
    /\ \E out \in Outputs : SessionInit(out)
    /\ arg = <<>>
    /\ ret = NotCalled

Next ==
    \/ Wrapper
    \/ Start
    \/ \E key \in Keys : Getch(key)
    \/ Interrupt

Spec == Init /\ [][Next]_vars

(***************************************************************************)
(* The functions of a line applied on their own, to every line of a        *)
(* bounded set.                                                            *)
(***************************************************************************)

\* the longest line of the exhaustive part of the inputs
MaxLineLen == 4

\* the longest string remove_colors is applied to
MaxEscLen == 6

\* all strings over alphabet of length at most n
Strings(alphabet, n) == UNION {[1..k -> alphabet] : k \in 0..n}

LineAlphabet == {"|", " ", "o", "*", "a", "(", ")", ","}

\* lines in the format of the log, field by field: graph prefix, node
\* glyph, commit id, author, branch list, time; each field also absent or
\* unusual
FormatPrefixes == {Chars(""), Chars(": | ")}
FormatGlyphs == {Chars("o"), Chars("*")}
FormatGaps == {Chars(""), Chars(" ")}
FormatCommits == {Chars(""), Chars("a"), Chars("abc")}
FormatWideGaps == {Chars(""), Chars(" "), Chars("  ")}
FormatAuthors == {Chars(""), Chars("b"), Chars("b(x)")}
FormatBranches ==
    {Chars(""), Chars("()"), Chars("(m)"), Chars("(origin/main, feature-x)"),
     Chars("(origin/main, origin/release)"), Chars("(, main)"), Chars("(m"),
     Chars("(a) (b)"), Chars("( x )")}
FormatTimes == {Chars(""), Chars("2 h")}

FormatLines ==
    {prefix \o glyph \o gap1 \o commit \o gap2 \o author \o gap3
            \o branches \o time :
        prefix \in FormatPrefixes, glyph \in FormatGlyphs,
        gap1 \in FormatGaps, commit \in FormatCommits,
        gap2 \in FormatWideGaps, author \in FormatAuthors,
        gap3 \in FormatGaps, branches \in FormatBranches,
        time \in FormatTimes}

LineInputs == Strings(LineAlphabet, MaxLineLen) \cup FormatLines

\* no log: only arg and ret change
NoOutput == [ok |-> FALSE, lines |-> <<>>]

InitLine ==
    /\ SessionInit(NoOutput)
    /\ arg \in LineInputs
    /\ ret = NotCalled

Returned(fn, value) ==
    /\ ret = NotCalled
    /\ ret' = [fn |-> fn, value |-> value]
    /\ UNCHANGED arg
    /\ UNCHANGED sessionVars

CallIsCommitLine == Returned("is_commit_line", is_commit_line(arg))

CallIsCurrentCheckout ==
    Returned("is_current_checkout", is_current_checkout(arg))

CallGetElements ==
    Returned("get_elements_from_log_line", get_elements_from_log_line(arg))

CallGetName ==
    Returned("get_commit_or_branch_name", get_commit_or_branch_name(arg))

\* format_line(arg, window, 1, is_current_line), as draw_menu calls it
\* (line 135): the instructions it issued
CallFormatLine(is_current_line) ==
    Returned("format_line",
             [is_current_line |-> is_current_line,
              issued |-> format_line(arg, 1, is_current_line)])

NextLine ==
    \/ CallIsCommitLine
    \/ CallIsCurrentCheckout
    \/ CallGetElements
    \/ CallGetName
    \/ \E is_current_line \in BOOLEAN : CallFormatLine(is_current_line)

SpecLine == InitLine /\ [][NextLine]_vars

\* ESC, a byte of [@-_], of [0-?], of [ -/] and of [@-~] only; the last two
\* are ordinary text outside an escape sequence
EscAlphabet == {ESC, "[", "0", " ", "m"}

InitSanitize ==
    /\ SessionInit(NoOutput)
    /\ arg \in Strings(EscAlphabet, MaxEscLen)
    /\ ret = NotCalled

\* remove_colors(arg), as get_smartlog calls it (line 35)
CallRemoveColors == Returned("remove_colors", remove_colors(arg))

\* remove_colors of that result, as get_commit_or_branch_name calls it on a
\* line of smartlog (line 140)
CallRemoveColorsAgain ==
    /\ ret.fn = "remove_colors"
    /\ ret' = [fn |-> "remove_colors twice", value |-> remove_colors(ret.value),
               once |-> ret.value]
    /\ UNCHANGED arg
    /\ UNCHANGED sessionVars

NextSanitize ==
    \/ CallRemoveColors
    \/ CallRemoveColorsAgain

SpecSanitize == InitSanitize /\ [][NextSanitize]_vars

(***************************************************************************)
(* The classifiers applied to a line and to the same line behind more      *)
(* graph-drawing characters.                                               *)
(***************************************************************************)

\* the longest run of graph-drawing characters put in front of a line
MaxPrefixLen == 2

\* the characters the graph is drawn with, to the left of a node glyph
PrefixAlphabet == {"|", ":", " "}

\* graph-drawing characters, node glyphs, a tab and a letter
ClassifierAlphabet == PrefixAlphabet \cup {"o", "*", "\t", "a"}

InitPrefix ==
    /\ SessionInit(NoOutput)
    /\ arg \in Strings(ClassifierAlphabet, MaxLineLen)
    /\ ret = NotCalled

\* classify(arg) and classify(prefix + arg) for a classifier of lines 45-52
Prefixed(fn, prefix, plain, prefixed) ==
    /\ ret = NotCalled
    /\ ret' = [fn |-> fn, prefix |-> prefix, plain |-> plain,
               prefixed |-> prefixed]
    /\ UNCHANGED arg
    /\ UNCHANGED sessionVars

CallIsCommitLinePrefixed(prefix) ==
    Prefixed("is_commit_line", prefix, is_commit_line(arg),
             is_commit_line(prefix \o arg))

CallIsCurrentCheckoutPrefixed(prefix) ==
    Prefixed("is_current_checkout", prefix, is_current_checkout(arg),
             is_current_checkout(prefix \o arg))

NextPrefix ==
    \E prefix \in Strings(PrefixAlphabet, MaxPrefixLen) :
        \/ CallIsCommitLinePrefixed(prefix)
        \/ CallIsCurrentCheckoutPrefixed(prefix)

SpecPrefix == InitPrefix /\ [][NextPrefix]_vars

(***************************************************************************)
(* Properties of the session (checked under Spec).                         *)
(***************************************************************************)

\* main has reached its loop: the log was read and holds a checkout row
Began == pc # "start" /\ current_checkout >= 0

\* the keys of the Confirm branch (line 184)
ConfirmKeys == {KEY_ENTER, KEY_LF, KEY_CR}

\* the last key getch returned was a Confirm key
Confirmed == keys # <<>> /\ keys[Len(keys)] \in ConfirmKeys

\* the last key getch returned was the Cancel key
Cancelled == keys # <<>> /\ keys[Len(keys)] = KEY_ESCAPE

\* the cursor the navigation rule gives after the keys ks, from cursor c
\* among count rows: MoveUp is -1 floored at 0, MoveDown is +1 capped at
\* count - 1, no other key moves it
RECURSIVE NavigatedCursor(_, _, _)
NavigatedCursor(ks, c, count) ==
    IF ks = <<>> THEN c
    ELSE NavigatedCursor(
             Tail(ks),
             IF Head(ks) = KEY_UP THEN (IF c = 0 THEN 0 ELSE c - 1)
             ELSE IF Head(ks) = KEY_DOWN
                  THEN (IF c = count - 1 THEN count - 1 ELSE c + 1)
                  ELSE c,
             count)

\* C1 (navigation bounds): once the session has begun, the count N of commit
\* rows is at least 1, the cursor is in 0 .. N-1, and it is the cursor the
\* navigation rule gives for the keys read so far (MoveUp: -1, staying at 0;
\* MoveDown: +1, staying at N-1; no wraparound).  For N = 5, nine MoveUp from
\* cursor 2 give 0 and nine MoveDown from cursor 2 give 4.
C1_NavigationBounds ==
    Began =>
        LET N == Len(commit_lines_indices)
        IN  /\ N >= 1
            /\ current_line \in 0..(N - 1)
            /\ current_line = NavigatedCursor(keys, current_checkout, N)
            /\ (N = 5 /\ current_checkout = 2
                    /\ keys = [i \in 1..9 |-> KEY_UP]) => current_line = 0
            /\ (N = 5 /\ current_checkout = 2
                    /\ keys = [i \in 1..9 |-> KEY_DOWN]) => current_line = 4

\* C1's case: five commit rows, nine MoveUp from cursor 2, the cursor at 0
C1_Witness ==
    /\ pc = "input"
    /\ Len(commit_lines_indices) = 5
    /\ current_checkout = 2
    /\ keys = [i \in 1..9 |-> KEY_UP]
    /\ current_line = 0

\* C2 (no-op confirm): when the cursor at the Confirm event is the index
\* recorded at initialization, no checkout call was issued in the session,
\* whatever moves came before.
C2_NoOpConfirm ==
    (Began /\ Confirmed /\ current_line = current_checkout)
        => checkouts = <<>>

\* C2's case: the cursor moved away and back, then Confirm on the checkout
C2_Witness ==
    /\ Began /\ Confirmed
    /\ current_line = current_checkout
    /\ \E i, j \in 1..Len(keys) : i < j /\ keys[i] = KEY_UP /\ keys[j] = KEY_DOWN
    /\ get_commit_or_branch_name(CursorRow).ok
    /\ checkouts = <<>>
    /\ pc = "exited"

\* C3 (confirm on a different row): after a Confirm event with the cursor on
\* a resolvable row other than the checkout, exactly one checkout call was
\* issued, with the resolver's result for the raw line
\* CommitRowIndex[cursor], and the session has ended.  On the two fixture
\* lines, Up then Confirm issues exactly one checkout call, of "main".
C3_ConfirmOtherRow ==
    /\ (Began /\ Confirmed /\ current_line # current_checkout)
           => LET ref == get_commit_or_branch_name(CursorRow)
              IN  ref.ok
                      => /\ checkouts = <<ref.ref>>
                         /\ pc \in {"exited", "failed"}
                         /\ pc = "failed" => error = "CalledProcessError"
    /\ (Len(keys) = 2 /\ keys[1] = KEY_UP /\ keys[2] \in ConfirmKeys
              /\ smartlog = FixtureLog)
           => checkouts = <<Chars("main")>>

\* C3's case: the fixture, Up then Enter, one checkout of "main"
C3_Witness ==
    /\ smartlog = FixtureLog
    /\ keys = <<KEY_UP, KEY_ENTER>>
    /\ checkouts = <<Chars("main")>>
    /\ pc = "exited"

\* C4 (Cancel and Interrupt never check out): after a Cancel event, or an
\* interrupt raised while getch blocks, the session has ended normally with
\* no checkout call, wherever the cursor was moved, and no step of the
\* session is possible any more (no further input event is processed).
C4_CancelNeverChecksOut ==
    (Cancelled \/ interrupted)
        => /\ pc = "exited"
           /\ error = "none"
           /\ checkouts = <<>>
           /\ ~ENABLED Next

\* C4's case: the cursor was moved off the checkout row, then Cancel
C4_Witness ==
    /\ Cancelled
    /\ Len(keys) >= 3
    /\ current_line # current_checkout
    /\ pc = "exited"
    /\ checkouts = <<>>

\* C5 (malformed row): every line of smartlog that is a commit line is in
\* commit_lines_indices, also one on which field extraction returns no
\* field; a Confirm event with the cursor on such a row ends the session with
\* the ValueError of get_commit_or_branch_name and without a checkout call.
C5_MalformedRow ==
    Began =>
        /\ \A i \in 1..Len(smartlog) :
               is_commit_line(smartlog[i])
                   => \E j \in 1..Len(commit_lines_indices) :
                          commit_lines_indices[j] = i - 1
        /\ (Confirmed /\ DOMAIN get_elements_from_log_line(CursorRow) = {})
               => /\ pc = "failed"
                  /\ error = "ValueError"
                  /\ checkouts = <<>>

\* C5's case: the cursor was moved onto a row without fields, then Confirm
C5_Witness ==
    /\ Began /\ Confirmed
    /\ current_line # current_checkout
    /\ is_commit_line(CursorRow)
    /\ DOMAIN get_elements_from_log_line(CursorRow) = {}
    /\ pc = "failed"
    /\ error = "ValueError"
    /\ checkouts = <<>>

\* C6 as stated (confirming the checkout row is never an error): a Confirm
\* event with the cursor on the checkout row ends the session normally, with
\* no checkout and no error, also when that row fails field extraction.
C6_ConfirmCheckoutNeverFails ==
    (Began /\ Confirmed /\ current_line = current_checkout)
        => /\ pc = "exited"
           /\ error = "none"
           /\ checkouts = <<>>

\* C6 as amended: a Confirm event with the cursor on the checkout row never
\* issues a checkout; it ends the session normally, with no error, when the
\* row resolves, and with the ValueError of get_commit_or_branch_name when
\* the row does not resolve (the row is resolved before the cursor is
\* compared with the checkout).
C6_ConfirmCheckoutRow ==
    (Began /\ Confirmed /\ current_line = current_checkout)
        => /\ checkouts = <<>>
           /\ IF get_commit_or_branch_name(CursorRow).ok
              THEN pc = "exited" /\ error = "none"
              ELSE pc = "failed" /\ error = "ValueError"

\* C6's case: Confirm as the first key, on a checkout row that resolves
C6_Witness ==
    /\ Began
    /\ Len(keys) = 1 /\ Confirmed
    /\ current_line = current_checkout
    /\ get_commit_or_branch_name(CursorRow).ok
    /\ pc = "exited"
    /\ error = "none"
    /\ checkouts = <<>>

(***************************************************************************)
(* Properties of the functions of a line (checked under SpecLine and       *)
(* SpecSanitize).                                                          *)
(***************************************************************************)

\* the fields the resolver extracts from arg: it sanitizes and strips first
ResolverFields == get_elements_from_log_line(strip(remove_colors(arg)))

\* the comma-separated tokens of a branches text, whitespace-trimmed
BranchTokens(text) ==
    LET parts == split(text) IN [i \in 1..Len(parts) |-> strip(parts[i])]

\* C7 (resolver preference): get_commit_or_branch_name returns, when a
\* branches field is present, the first trimmed comma-separated token that
\* does not start with "origin/", or the first trimmed token when all do;
\* with no branches field but a commit field, the commit text verbatim; with
\* neither, it fails.  Branches "origin/main, feature-x" give "feature-x",
\* "origin/main, origin/release" give "origin/main".
C7_ResolverPreference ==
    ret.fn = "get_commit_or_branch_name" =>
        LET fields == ResolverFields
        IN  IF "branches" \in DOMAIN fields
            THEN LET tokens == BranchTokens(fields["branches"].text)
                     locals == {i \in 1..Len(tokens) :
                                   ~startswith(tokens[i], OriginPrefix)}
                 IN  /\ ret.value.ok
                     /\ IF locals = {}
                        THEN ret.value.ref = tokens[1]
                        ELSE \E i \in locals :
                                 /\ \A j \in locals : i <= j
                                 /\ ret.value.ref = tokens[i]
                     /\ fields["branches"].text = Chars("origin/main, feature-x")
                            => ret.value.ref = Chars("feature-x")
                     /\ fields["branches"].text
                                = Chars("origin/main, origin/release")
                            => ret.value.ref = Chars("origin/main")
            ELSE IF "commit" \in DOMAIN fields
            THEN ret.value.ok /\ ret.value.ref = fields["commit"].text
            ELSE ~ret.value.ok

\* C7's case: a remote-tracking branch listed before a local one
C7_Witness ==
    /\ ret.fn = "get_commit_or_branch_name"
    /\ "branches" \in DOMAIN ResolverFields
    /\ ResolverFields["branches"].text = Chars("origin/main, feature-x")
    /\ ret.value.ok
    /\ ret.value.ref = Chars("feature-x")

\* C8 as stated (sanitization is idempotent): a second remove_colors returns
\* what the first returned, for every input.
C8_Idempotent ==
    ret.fn = "remove_colors twice" => ret.value = ret.once

\* every ESC of s begins an escape sequence of the pattern
EveryEscBeginsSequence(s) ==
    \A i \in 1..Len(s) : s[i] = ESC => EscapeEnd(s, i - 1) # -1

\* C8 as amended: remove_colors never lengthens its input; when every ESC of
\* the input begins an escape sequence, one pass leaves no ESC and a second
\* pass returns what the first returned.  (Otherwise a pass may leave an
\* ESC in front of text that completes a sequence: ESC ESC [ m [ m gives
\* ESC [ m, and a second pass gives the empty string.)
C8_IdempotentOnWellFormed ==
    /\ ret.fn = "remove_colors" => Len(ret.value) <= Len(arg)
    /\ (ret.fn = "remove_colors twice" /\ EveryEscBeginsSequence(arg))
           => /\ \A i \in 1..Len(ret.once) : ret.once[i] # ESC
              /\ ret.value = ret.once

\* C8's case: an escape sequence with a parameter byte inside text, removed
\* by the first pass
C8_Witness ==
    /\ ret.fn = "remove_colors twice"
    /\ EveryEscBeginsSequence(arg)
    /\ \E i \in 2..Len(arg) : arg[i] = ESC /\ EscapeEnd(arg, i - 1) = i + 3
    /\ Len(ret.once) = Len(arg) - 4
    /\ ret.value = ret.once

\* the spans (a1, b1) and (a2, b2) share no offset
Disjoint(c1, c2) == c1[2] <= c2[1] \/ c2[2] <= c1[1]

\* C9 (FieldSpan well-formedness): every field get_elements_from_log_line
\* returns for a sanitized line has a span with 0 <= start <= end <= len(line)
\* whose slice of the line is the field's text; the spans of two distinct
\* fields do not overlap; a non-empty result is of a commit line and holds
\* commit.
C9_FieldSpans ==
    (ret.fn = "get_elements_from_log_line" /\ remove_colors(arg) = arg) =>
        /\ \A key \in DOMAIN ret.value :
               LET start == ret.value[key].coordinates[1]
                   end == ret.value[key].coordinates[2]
               IN  /\ 0 <= start /\ start <= end /\ end <= Len(arg)
                   /\ Slice(arg, start, end) = ret.value[key].text
        /\ \A k1, k2 \in DOMAIN ret.value :
               k1 # k2 => Disjoint(ret.value[k1].coordinates,
                                   ret.value[k2].coordinates)
        /\ DOMAIN ret.value # {}
               => is_commit_line(arg) /\ "commit" \in DOMAIN ret.value

\* C9's case: a line with all four fields
C9_Witness ==
    /\ ret.fn = "get_elements_from_log_line"
    /\ remove_colors(arg) = arg
    /\ DOMAIN ret.value = FieldNames
    /\ ret.value["branches"].text = Chars("origin/main, feature-x")

\* C10 (whitespace-delimited tokens): when extraction succeeds, the
\* character right after the commit span and the character right before the
\* author span are whitespace; commit and author are never two pieces of
\* one run of non-whitespace characters.
C10_WhitespaceDelimited ==
    (ret.fn = "get_elements_from_log_line" /\ DOMAIN ret.value # {}) =>
        LET commit == ret.value["commit"].coordinates
            author == ret.value["author"].coordinates
        IN  /\ arg[commit[2] + 1] \in Whitespace
            /\ arg[author[1]] \in Whitespace


(***************************************************************************)
(* Properties of startup, of the frames and of the way the session ends    *)
(* (checked under Spec).                                                   *)
(***************************************************************************)

\* main got past get_smartlog: smartlog and commit_lines_indices are set
LogRead == pc \in {"input", "exited", "failed"} /\ output.ok

\* the raw lines of smartlog that satisfy is_current_checkout
CheckoutLines ==
    {i \in 0..(Len(smartlog) - 1) : is_current_checkout(smartlog[i + 1])}

\* the instructions of frame that paint in the highlight style
Highlighted(frame) ==
    {k \in 1..Len(frame) :
        frame[k].op = "addstr" /\ frame[k].color = MAGENTA}

\* frame is one frame: clear, every line of lines painted whole from column
\* 1 of its own screen line, refresh; the line current, and no other
\* instruction, in the highlight style
PaintsAllLines(frame, lines, current) ==
    /\ Len(frame) >= 2
    /\ frame[1].op = "clear"
    /\ frame[Len(frame)].op = "refresh"
    /\ \A k \in 2..(Len(frame) - 1) : frame[k].op = "addstr"
    /\ \A i \in 0..(Len(lines) - 1) :
           \E k \in 2..(Len(frame) - 1) :
               /\ frame[k].y = i + 1
               /\ frame[k].x = 1
               /\ frame[k].text = lines[i + 1]
               /\ frame[k].color = (IF i = current THEN MAGENTA ELSE WHITE)
    /\ \A k \in Highlighted(frame) : frame[k].y = current + 1
    /\ Cardinality(Highlighted(frame)) = 1

\* C11 (initial state): before any key is read, when the log holds a row
\* that satisfies is_current_checkout, the cursor is the position in
\* commit_lines_indices of the first such raw line (not its raw index) and
\* the one frame painted highlights exactly that raw line; when the log
\* holds no such row, main has failed with no key read, no frame painted
\* and no checkout requested.
C11_InitialCursor ==
    (LogRead /\ keys = <<>>) =>
        IF CheckoutLines # {}
        THEN LET first == CHOOSE i \in CheckoutLines :
                              \A j \in CheckoutLines : i <= j
             IN  /\ pc # "failed"
                 /\ current_checkout \in 0..(Len(commit_lines_indices) - 1)
                 /\ commit_lines_indices[current_checkout + 1] = first
                 /\ current_line = current_checkout
                 /\ frames = 1
                 /\ highlight = first
                 /\ PaintsAllLines(window, smartlog, first)
        ELSE /\ pc = "failed"
             /\ error = "IndexError"
             /\ frames = 0
             /\ window = <<>>
             /\ checkouts = <<>>
             /\ resolved = <<>>

\* C11's case: the checkout is raw line 4 and the third commit row; a
\* second case would be the log with two rows carrying the checkout glyph
C11_Witness ==
    /\ pc = "input"
    /\ keys = <<>>
    /\ Len(smartlog) = 8
    /\ CheckoutLines = {4}
    /\ current_line = 2
    /\ highlight = 4
    /\ frames = 1

\* C12 (re-render after every non-terminal transition): a step that reads
\* MoveUp or MoveDown, blocked at a bound or not, paints exactly one frame
\* (clear, all raw lines, refresh) that highlights raw line
\* commit_lines_indices[cursor] for the cursor after the step, and leaves
\* main waiting for the next key; a step that reads Confirm or Cancel
\* paints no frame.
C12_RenderAfterTransition ==
    [][keys' # keys =>
          LET key == keys'[Len(keys')]
              raw == commit_lines_indices'[current_line' + 1]
          IN  /\ key \in {KEY_UP, KEY_DOWN} =>
                     /\ frames' = frames + 1
                     /\ highlight' = raw
                     /\ PaintsAllLines(window', smartlog', raw)
                     /\ pc' = "input"
              /\ key \in ConfirmKeys \cup {KEY_ESCAPE} =>
                     /\ frames' = frames
                     /\ highlight' = highlight
                     /\ window' = window
                     /\ pc' # "input"]_vars

\* C12's case: the third MoveUp was blocked at row 0 and a fourth frame
\* was painted all the same
C12_Witness ==
    /\ pc = "input"
    /\ Len(commit_lines_indices) = 5
    /\ current_checkout = 2
    /\ keys = <<KEY_UP, KEY_UP, KEY_UP>>
    /\ current_line = 0
    /\ frames = 4
    /\ highlight = 0
    /\ window[2].color = MAGENTA

\* C13 (at most one checkout per session): every step starts with no
\* checkout requested so far, so that after the checkout sink was called no
\* key is read, no frame is painted and the sink is not called again; the
\* step that calls it calls it once and ends the session, normally when git
\* succeeded and with git's error when it failed.
C13_AtMostOneCheckout ==
    [][/\ checkouts = <<>>
       /\ checkouts' # <<>> =>
              /\ Len(checkouts') = 1
              /\ frames' = frames
              /\ pc' \in {"exited", "failed"}
              /\ pc' = "failed" => error' = "CalledProcessError"]_vars

\* C13's case: the checkout failed and the session is over, with one call
C13_Witness ==
    /\ Len(checkouts) = 1
    /\ pc = "failed"
    /\ error = "CalledProcessError"
    /\ Len(keys) > 1
    /\ ~ENABLED Next

\* C14 (terminal mode is scoped to the session): the terminal is in curses
\* mode whenever main runs or waits for a key, it is not yet in curses mode
\* (and nothing was painted or read) before curses.wrapper is called, and
\* it is back in its prior mode in every state the session has ended in,
\* however it ended.
C14_TerminalScoped ==
    /\ pc = "wrapper" => terminal = "shell" /\ frames = 0 /\ keys = <<>>
    /\ pc \in {"start", "input"} => terminal = "curses"
    /\ (frames > 0 \/ keys # <<>>) =>
           (terminal = "curses" \/ pc \in {"exited", "failed"})
    /\ pc \in {"exited", "failed"} => terminal = "shell"

\* C14's case: the session ended with the ValueError of a row that does
\* not resolve, after frames were painted, and the terminal is restored
C14_Witness ==
    /\ pc = "failed"
    /\ error = "ValueError"
    /\ frames > 1
    /\ checkouts = <<>>
    /\ terminal = "shell"

\* C16 (only commit rows are interactive): commit_lines_indices is the
\* strictly increasing list of exactly the raw-line indices whose line
\* satisfies is_commit_line; the raw line the frame on show highlights is
\* commit_lines_indices[cursor], a commit row; every line handed to the
\* resolver is that row; and the frame paints every raw line, connector
\* lines included.
C16_OnlyCommitRows ==
    LogRead =>
        LET N == Len(commit_lines_indices)
        IN  /\ \A i, j \in 1..N :
                   i < j => commit_lines_indices[i] < commit_lines_indices[j]
            /\ {commit_lines_indices[i] : i \in 1..N}
                   = {i \in 0..(Len(smartlog) - 1) :
                          is_commit_line(smartlog[i + 1])}
            /\ Began =>
                   /\ highlight = commit_lines_indices[current_line + 1]
                   /\ is_commit_line(smartlog[highlight + 1])
                   /\ PaintsAllLines(window, smartlog, highlight)
                   /\ \A k \in 1..Len(resolved) :
                          /\ resolved[k] = smartlog[highlight + 1]
                          /\ is_commit_line(resolved[k])

\* C16's case: the log has connector lines between its commit rows; the
\* cursor went from raw line 4 over the connector line 3 to raw line 2,
\* which Confirm handed to the resolver
C16_Witness ==
    /\ Confirmed
    /\ Len(keys) = 2
    /\ keys[1] = KEY_UP
    /\ Len(smartlog) = 8
    /\ ~is_commit_line(smartlog[4])
    /\ highlight = 2
    /\ resolved = <<smartlog[3]>>
    /\ \E k \in 1..Len(window) :
           window[k].op = "addstr" /\ window[k].text = smartlog[4]

(***************************************************************************)
(* Properties of the classifiers behind a longer prefix (checked under     *)
(* SpecPrefix), of the resolved reference and of format_line (checked      *)
(* under SpecLine).                                                        *)
(***************************************************************************)

\* C15 (classifier monotonicity): for every line s and every string p of
\* "|", ":" and space characters, is_commit_line(p + s) is
\* is_commit_line(s) and is_current_checkout(p + s) is
\* is_current_checkout(s).
C15_ClassifierMonotonicity ==
    ret # NotCalled =>
        /\ ret.fn \in {"is_commit_line", "is_current_checkout"}
        /\ \A i \in 1..Len(ret.prefix) : ret.prefix[i] \in PrefixAlphabet
        /\ ret.prefixed = ret.plain

\* C15's case: a checkout row that already has a prefix, behind two more
\* characters, is still a checkout row
C15_Witness ==
    /\ ret # NotCalled
    /\ ret.fn = "is_current_checkout"
    /\ arg = <<"|", " ", "*", "a">>
    /\ ret.prefix = <<":", " ">>
    /\ ret.plain
    /\ ret.prefixed

\* C17 (checkout references are never empty): when
\* get_commit_or_branch_name succeeds on a commit row, the reference it
\* returns is not empty and neither starts nor ends with whitespace.
C17_ReferenceNotEmpty ==
    (ret.fn = "get_commit_or_branch_name" /\ is_commit_line(arg)
         /\ ret.value.ok) =>
        LET ref == ret.value.ref
        IN  /\ ref # <<>>
            /\ ref[1] \notin Whitespace
            /\ ref[Len(ref)] \notin Whitespace

\* C18 (recoloring changes style only): for a row that is not selected,
\* format_line first paints the whole line from column 1 (character i at
\* column i + 1), then the commit text at column commit.start + 1 when
\* there is a commit field, then "(" + branches + ")" at column
\* branches.start when there is a branches field, and nothing else; every
\* character of such an overlay lands on a column the line covers and is the
\* character the line has there.  For the selected row it paints the whole
\* line once, in the highlight style.
C18_RecolorKeepsText ==
    ret.fn = "format_line" =>
        LET issued == ret.value.issued
            elements == get_elements_from_log_line(arg)
            commit == IF "commit" \in DOMAIN elements
                      THEN <<[op |-> "addstr", y |-> 1,
                              x |-> elements["commit"].coordinates[1] + 1,
                              text |-> elements["commit"].text,
                              color |-> YELLOW]>>
                      ELSE <<>>
            branches == IF "branches" \in DOMAIN elements
                        THEN <<[op |-> "addstr", y |-> 1,
                                x |-> elements["branches"].coordinates[1],
                                text |-> <<"(">> \o elements["branches"].text
                                                 \o <<")">>,
                                color |-> GREEN]>>
                        ELSE <<>>
            whole(color) == [op |-> "addstr", y |-> 1, x |-> 1,
                             text |-> arg, color |-> color]
        IN  IF ret.value.is_current_line
            THEN issued = <<whole(MAGENTA)>>
            ELSE /\ issued = <<whole(WHITE)>> \o commit \o branches
                 /\ \A k \in 2..Len(issued) :
                        \A j \in 1..Len(issued[k].text) :
                            LET column == issued[k].x + j - 1
                            IN  /\ column \in 1..Len(arg)
                                /\ arg[column] = issued[k].text[j]

\* C18's case: a row behind a graph prefix with a commit id and two
\* branches, not selected: three paints, the last one the branch list with
\* its parentheses
C18_Witness ==
    /\ ret.fn = "format_line"
    /\ ~ret.value.is_current_line
    /\ arg = Chars(": | o abc b (origin/main, feature-x)2 h")
    /\ Len(ret.value.issued) = 3
    /\ ret.value.issued[2].x = 7
    /\ ret.value.issued[3].x = 13
    /\ ret.value.issued[3].text = Chars("(origin/main, feature-x)")

=============================================================================
